---- MODULE Spec2Model ----
(***************************************************************************)
(* Model of Python.ActiveGithub: the traffic ledger of                     *)
(* main/UserReposTraffic.py, the REST helpers of lib/githubREST.py and the *)
(* command loop of main/GitHubRepl.py.                                     *)
(***************************************************************************)
EXTENDS Integers, Sequences, FiniteSets, TLC

VARIABLES
  file,      \* userReposTraffic.json
  before,    \* the file as the last call of mergeDataWithJson found it
  call,      \* the last call of mergeDataWithJson and what it fetched
  repeated,  \* the last call had the arguments and fetched days of the one before
  inv,       \* two concurrent invocations of mergeDataWithJson: position and locals
  order,     \* the file accesses of the two invocations, in the order they happened
  start,     \* the file as it was before the two invocations
  forks,     \* a call of getListOfAliveForks: arguments, clock readings, results
  api,       \* a call of getGithubApiRequest: the response and what became of it
  pages,     \* a call of getPaginatedGithubApiRequest in progress
  rank,      \* the ranking script: position, sortRepos, sortedRepos
  repl       \* the command loop: position, last line, what was logged

ledgerVars == <<before, call, repeated>>
concVars == <<inv, order, start>>
restVars == <<forks, api, pages, rank, repl>>
vars == <<file, before, call, repeated, inv, order, start, forks, api, pages, rank, repl>>

(***************************************************************************)
(* Bounds of the model.                                                    *)
(***************************************************************************)
MaxDays == 2

(***************************************************************************)
(* Python values.  A dict is a function whose domain is its key set.       *)
(***************************************************************************)
EmptyDict == <<>>

DictSet(d, key, value) ==
  [x \in (DOMAIN d) \cup {key} |-> IF x = key THEN value ELSE d[x]]

Last(seq) == seq[Len(seq)]

SeqsUpTo(S, n) == UNION {[1..i -> S] : i \in 0..n}

(***************************************************************************)
(* utils.getDatetime: a platform timestamp "YYYY-MM-DDT00:00:00Z", written *)
(* <<year, month, day>>, parsed into a comparable instant (the proleptic   *)
(* Gregorian ordinal of the day, as datetime compares).                    *)
(***************************************************************************)
IsLeap(y) == (y % 4 = 0) /\ ((y % 100 # 0) \/ (y % 400 = 0))

DaysBeforeMonth(y, m) ==
  LET cum == <<0, 31, 59, 90, 120, 151, 181, 212, 243, 273, 304, 334>>
  IN  cum[m] + (IF m > 2 /\ IsLeap(y) THEN 1 ELSE 0)

getDatetime(ts) ==
  LET y == ts[1] - 1
  IN  y * 365 + (y \div 4) - (y \div 100) + (y \div 400)
        + DaysBeforeMonth(ts[1], ts[2]) + ts[3]

(***************************************************************************)
(* The traffic ledger: userReposTraffic.json.                              *)
(***************************************************************************)
Repos == {"u/a", "u/b"}
Kinds == {"clones", "views"}

\* The (repoName, trafficType) arguments of the calls made one after another:
\* both traffic kinds of one repository and one kind of the other.
CallArgs == {<<"u/a", "clones">>, <<"u/a", "views">>, <<"u/b", "views">>}
NoFile == [exists |-> FALSE, text |-> <<>>]

\* The sample mergeDataWithJson seeds a missing entry with.
Sentinel == [timestamp |-> <<2000, 1, 1>>, uniques |-> 0]

\* The days the traffic endpoint may report: {timestamp, count, uniques}.
Day1 == [timestamp |-> <<2019, 12, 31>>, count |-> 4, uniques |-> 3]
Day2 == [timestamp |-> <<2020, 1, 1>>, count |-> 6, uniques |-> 5]
Days == {Day1, Day2}

DayLists == SeqsUpTo(Days, MaxDays)

\* json.dump: the document of a ledger.  An object is written member by member
\* under its keys; a sample is written as the object of its two members.
jsonDump(d) ==
  [r \in DOMAIN d |->
     [k \in DOMAIN d[r] |->
        [i \in DOMAIN d[r][k] |->
           <<"timestamp", d[r][k][i].timestamp, "uniques", d[r][k][i].uniques>>]]]

\* json.loads: the dict of a document.
jsonLoads(doc) ==
  [r \in DOMAIN doc |->
     [k \in DOMAIN doc[r] |->
        [i \in DOMAIN doc[r][k] |->
           [timestamp |-> doc[r][k][i][2], uniques |-> doc[r][k][i][4]]]]]

\* The ledger as read, an empty dict when the file does not exist.
ReadLedger(f) == IF f.exists THEN jsonLoads(f.text) ELSE EmptyDict

\* A missing repository gets an empty entry.
WithRepo(d, repoName) ==
  IF repoName \notin DOMAIN d THEN DictSet(d, repoName, EmptyDict) ELSE d

\* The sentinel whatever is stored.
AlwaysSeed(d, repoName, trafficType) == <<Sentinel>>

\* The stored sequence, or the sentinel when the traffic kind is missing.
StoredOrSeed(d, repoName, trafficType) ==
  IF trafficType \notin DOMAIN d[repoName]
    THEN <<Sentinel>>
    ELSE d[repoName][trafficType]

\* The comparison that admits a fetched day.
IsNewerOrEqual(last, day) ==
  getDatetime(last.timestamp) <= getDatetime(day.timestamp)

IsNewer(last, day) ==
  getDatetime(last.timestamp) < getDatetime(day.timestamp)

\* The loop comparing every day with the last sample stored before the loop.
AppendDaysStale(userRepoTrafficType, days) ==
  userRepoTrafficType \o
    [i \in 1..Len(SelectSeq(days, LAMBDA day : IsNewer(Last(userRepoTrafficType), day))) |->
       LET day == SelectSeq(days, LAMBDA x : IsNewer(Last(userRepoTrafficType), x))[i]
       IN  [timestamp |-> day.timestamp, uniques |-> day.uniques]]

\* for day in days: append the day when it is newer than the last stored one.
RECURSIVE AppendDays(_, _)
AppendDays(userRepoTrafficType, days) ==
  IF days = <<>>
    THEN userRepoTrafficType
    ELSE LET day == Head(days)
             next == IF IsNewer(Last(userRepoTrafficType), day)
                       THEN Append(userRepoTrafficType,
                              [timestamp |-> day.timestamp, uniques |-> day.uniques])
                       ELSE userRepoTrafficType
         IN  AppendDays(next, Tail(days))

\* userReposTraffic[repoName][trafficType] = userRepoTrafficType, losing the
\* repository's other traffic kind.
StoreEntryFresh(d, repoName, trafficType, seq) ==
  DictSet(d, repoName, DictSet(EmptyDict, trafficType, seq))

\* userReposTraffic[repoName][trafficType] = userRepoTrafficType
StoreEntry(d, repoName, trafficType, seq) ==
  DictSet(d, repoName, DictSet(d[repoName], trafficType, seq))

\* The dict mergeDataWithJson holds when it opens the file for writing.
MergedLedger(f, repoName, trafficType, days) ==
  LET userReposTraffic == WithRepo(ReadLedger(f), repoName)
      userRepoTrafficType == StoredOrSeed(userReposTraffic, repoName, trafficType)
  IN  StoreEntry(userReposTraffic, repoName, trafficType,
                 AppendDays(userRepoTrafficType, days))

NoCall == [repo |-> "", kind |-> "", ok |-> FALSE, days |-> <<>>]

\* mergeDataWithJson(repoName, trafficType) with the days getRepoTraffic returns.
mergeDataWithJson(repoName, trafficType, days) ==
  /\ file' = [exists |-> TRUE, text |-> jsonDump(MergedLedger(file, repoName, trafficType, days))]
  /\ before' = file
  /\ call' = [repo |-> repoName, kind |-> trafficType, ok |-> TRUE, days |-> days]
  /\ repeated' = (call' = call)
  /\ UNCHANGED <<concVars, restVars>>

\* mergeDataWithJson when getRepoTraffic raises (or its answer has no such key):
\* the call ends before the file is opened for writing.
mergeDataWithJsonRaises(repoName, trafficType) ==
  /\ file' = file
  /\ before' = file
  /\ call' = [repo |-> repoName, kind |-> trafficType, ok |-> FALSE, days |-> <<>>]
  /\ repeated' = (call' = call)
  /\ UNCHANGED <<concVars, restVars>>

Procs == {"p1", "p2"}

NoInvocation ==
  [pc |-> "start", repo |-> "", kind |-> "", days |-> <<>>,
   userReposTraffic |-> EmptyDict, userRepoTrafficType |-> <<>>]

LedgerIdle == before = NoFile /\ call = NoCall /\ repeated = FALSE
ConcIdle == inv = [p \in Procs |-> NoInvocation] /\ order = <<>> /\ start = NoFile

ForksIdle == forks = [pc |-> "start"]
ApiIdle == api = [pc |-> "start"]
PagesIdle == pages = [pc |-> "start", page |-> 1]
RankIdle == rank = [pc |-> "loop", sortRepos |-> <<>>, sortedRepos |-> <<>>]
ReplIdle == repl = [pc |-> "prompt", outcome |-> ""]

RestIdle == ForksIdle /\ ApiIdle /\ PagesIdle /\ RankIdle /\ ReplIdle

Init ==
  /\ file = NoFile
  /\ LedgerIdle
  /\ ConcIdle
  /\ RestIdle

Next ==
  \/ \E a \in CallArgs, days \in DayLists : mergeDataWithJson(a[1], a[2], days)
  \/ \E a \in CallArgs : mergeDataWithJsonRaises(a[1], a[2])

Spec == Init /\ [][Next]_vars

(***************************************************************************)
(* Two invocations of mergeDataWithJson running at once (two runs of the   *)
(* script on one working directory).  Each is cut where it touches the     *)
(* file: the read, the fetch and the loop on its own locals, the write.    *)
(***************************************************************************)
\* The ledgers one call can leave from an absent file.
SeedFiles ==
  {NoFile} \cup
  { [exists |-> TRUE, text |-> jsonDump(MergedLedger(NoFile, r, k, days))] :
      r \in Repos, k \in Kinds, days \in DayLists }

\* Lines 16-28: read the file, fill in a missing repository, take the stored
\* sequence or the sentinel.
ReadStep(p, repoName, trafficType) ==
  /\ inv[p].pc = "start"
  /\ LET userReposTraffic == WithRepo(ReadLedger(file), repoName)
     IN  inv' = [inv EXCEPT ![p] =
                   [pc |-> "fetch", repo |-> repoName, kind |-> trafficType,
                    days |-> <<>>,
                    userReposTraffic |-> userReposTraffic,
                    userRepoTrafficType |->
                      StoredOrSeed(userReposTraffic, repoName, trafficType)]]
  /\ order' = Append(order, <<p, "read">>)
  /\ UNCHANGED <<file, start, ledgerVars, restVars>>

\* Lines 30-36: fetch the days, append the newer ones, store the sequence in
\* the dict.
FetchStep(p, days) ==
  /\ inv[p].pc = "fetch"
  /\ LET seq == AppendDays(inv[p].userRepoTrafficType, days)
     IN  inv' = [inv EXCEPT ![p] =
                   [@ EXCEPT !.pc = "write", !.days = days,
                             !.userRepoTrafficType = seq,
                             !.userReposTraffic =
                               StoreEntry(@, inv[p].repo, inv[p].kind, seq)]]
  /\ UNCHANGED <<file, order, start, ledgerVars, restVars>>

\* Line 30 raising: the invocation ends without writing.
FetchRaises(p) ==
  /\ inv[p].pc = "fetch"
  /\ inv' = [inv EXCEPT ![p].pc = "raised"]
  /\ UNCHANGED <<file, order, start, ledgerVars, restVars>>

\* The dict written after re-reading the file and storing the own sequence in
\* it, as a read under a lock would.
RereadLedgerToWrite(p) ==
  StoreEntry(WithRepo(ReadLedger(file), inv[p].repo), inv[p].repo, inv[p].kind,
             inv[p].userRepoTrafficType)

\* The dict json.dump is given: the invocation's own userReposTraffic.
LedgerToWrite(p) == inv[p].userReposTraffic

\* Lines 37-38: rewrite the whole file.
WriteStep(p) ==
  /\ inv[p].pc = "write"
  /\ file' = [exists |-> TRUE, text |-> jsonDump(LedgerToWrite(p))]
  /\ inv' = [inv EXCEPT ![p].pc = "done"]
  /\ order' = Append(order, <<p, "write">>)
  /\ UNCHANGED <<start, ledgerVars, restVars>>

InitConc ==
  /\ file \in SeedFiles
  /\ start = file
  /\ inv = [p \in Procs |-> NoInvocation]
  /\ order = <<>>
  /\ LedgerIdle
  /\ RestIdle

NextConc ==
  \/ \E p \in Procs, r \in Repos, k \in Kinds : ReadStep(p, r, k)
  \/ \E p \in Procs, days \in DayLists : FetchStep(p, days)
  \/ \E p \in Procs : FetchRaises(p)
  \/ \E p \in Procs : WriteStep(p)

SpecConc == InitConc /\ [][NextConc]_vars

(***************************************************************************)
(* lib/githubREST.py: getListOfAliveForks.                                 *)
(***************************************************************************)
MaxForks == 3

\* datetime.timedelta(weeks=lifespan), in days.
Weeks(lifespan) == lifespan * 7

ForkStamps == {<<2023, 12, 25>>, <<2024, 1, 20>>, <<2024, 2, 1>>}
SourceStamps == {<<2024, 1, 1>>, <<2024, 1, 20>>}
Lifespans == {1, 4}
\* What datetime.datetime.now() may answer while the loop runs.
ClockReadings == {getDatetime(<<2024, 2, 6>>), getDatetime(<<2024, 2, 8>>)}

NonDecreasing(seq) == \A i \in 1..(Len(seq) - 1) : seq[i] <= seq[i + 1]

\* isAlive = forkedRepoPushedAt + timedelta(weeks=lifespan) > now()
IsAlive(pushedAt, lifespan, now) == pushedAt + Weeks(lifespan) > now

\* isNewer = forkedRepoPushedAt > getDatetime(repoData["pushed_at"])
ForkIsNewer(pushedAt, sourcePushedAt) == pushedAt > sourcePushedAt

\* The test without its second look at isNewer.
IncludeAlive(isAlive, isNewer, enableNewer) == isAlive

\* (isAlive and isNewer) or (isAlive and not enableNewer)
IncludeFork(isAlive, isNewer, enableNewer) ==
  (isAlive /\ isNewer) \/ (isAlive /\ ~enableNewer)

\* for forkedRepo in forkedRepos: ... aliveRepos.append(forkedRepo); the i-th
\* turn of the loop reads the clock as clock[i].
RECURSIVE AliveLoop(_, _, _, _, _, _, _)
AliveLoop(forkedRepos, i, aliveRepos, sourcePushedAt, lifespan, enableNewer, clock) ==
  IF i > Len(forkedRepos)
    THEN aliveRepos
    ELSE LET forkedRepo == forkedRepos[i]
             forkedRepoPushedAt == getDatetime(forkedRepo.pushed_at)
             isAlive == IsAlive(forkedRepoPushedAt, lifespan, clock[i])
             isNewer == ForkIsNewer(forkedRepoPushedAt, getDatetime(sourcePushedAt))
         IN  AliveLoop(forkedRepos, i + 1,
                       IF IncludeFork(isAlive, isNewer, enableNewer)
                         THEN Append(aliveRepos, forkedRepo)
                         ELSE aliveRepos,
                       sourcePushedAt, lifespan, enableNewer, clock)

\* getListOfAliveForks(repoData, lifespan, enableNewer) with the forks that
\* getListOfRepos returns.
getListOfAliveForks(sourcePushedAt, lifespan, enableNewer, stamps, clock) ==
  /\ forks.pc = "start"
  /\ LET forkedRepos == [i \in 1..Len(stamps) |->
                           [full_name |-> i, pushed_at |-> stamps[i]]]
     IN  forks' = [pc |-> "returned", pushed_at |-> sourcePushedAt,
                   lifespan |-> lifespan, enableNewer |-> enableNewer,
                   clock |-> clock, forkedRepos |-> forkedRepos,
                   aliveRepos |-> AliveLoop(forkedRepos, 1, <<>>, sourcePushedAt,
                                            lifespan, enableNewer, clock)]
  /\ UNCHANGED <<file, ledgerVars, concVars, api, pages, rank, repl>>

\* getListOfRepos raising: nothing is returned.
getListOfAliveForksRaises ==
  /\ forks.pc = "start"
  /\ forks' = [pc |-> "raised"]
  /\ UNCHANGED <<file, ledgerVars, concVars, api, pages, rank, repl>>

InitForks == file = NoFile /\ LedgerIdle /\ ConcIdle /\ RestIdle

NextForks ==
  /\ forks.pc = "start"
  /\ \E sourcePushedAt \in SourceStamps, lifespan \in Lifespans, enableNewer \in BOOLEAN,
        n \in 0..MaxForks :
       \E stamps \in [1..n -> ForkStamps], clock \in [1..n -> ClockReadings] :
         /\ NonDecreasing(clock)
         /\ getListOfAliveForks(sourcePushedAt, lifespan, enableNewer, stamps, clock)

NextForksOrRaise == NextForks \/ getListOfAliveForksRaises

SpecForks == InitForks /\ [][NextForksOrRaise]_vars

(***************************************************************************)
(* lib/githubREST.py: getGithubApiRequest.  Text is a sequence of          *)
(* characters; a header value is a str.                                    *)
(***************************************************************************)
MaxItems == 2

Digits == <<"0", "1", "2", "3", "4", "5", "6", "7", "8", "9">>

IsDigit(c) == \E i \in 1..10 : Digits[i] = c

DigitOf(c) == (CHOOSE i \in 1..10 : Digits[i] = c) - 1

\* int(text) accepts (here) a non-empty run of decimal digits.
IsDecimal(text) == text # <<>> /\ \A i \in 1..Len(text) : IsDigit(text[i])

RECURSIVE pyIntValue(_)
pyIntValue(text) ==
  IF text = <<>>
    THEN 0
    ELSE pyIntValue(SubSeq(text, 1, Len(text) - 1)) * 10 + DigitOf(text[Len(text)])

RECURSIVE DecimalText(_)
DecimalText(n) ==
  IF n < 10 THEN <<Digits[n + 1]>>
            ELSE DecimalText(n \div 10) \o <<Digits[(n % 10) + 1]>>

Str(text) == [type |-> "str", text |-> text]

\* time.ctime(secs): secs must be a number; a str raises TypeError.
ctime(secs) ==
  IF secs.type = "str"
    THEN [raised |-> TRUE, text |-> <<>>]
    ELSE [raised |-> FALSE, text |-> secs.text]

\* The bodies a response may carry: a list of items, a dict of data, or the
\* dict of an error with its "message".
Items == {[item |-> 1], [item |-> 2]}
ErrorBody == [type |-> "dict", items |-> <<"message", "documentation_url">>]
DataBody == [type |-> "dict", items |-> <<"count", "uniques", "clones">>]
ListBody(items) == [type |-> "list", items |-> items]
Bodies == {ListBody(x) : x \in SeqsUpTo(Items, MaxItems)} \cup {ErrorBody, DataBody}

\* "message" in requestJson: a key of a dict; never an element of a list of
\* objects.
HasMessage(body) ==
  body.type = "dict" /\ \E i \in 1..Len(body.items) : body.items[i] = "message"

RemainingTexts == {<<"0">>, <<"1">>, <<"4", "2">>}
ResetTexts == {<<"1", "7">>, <<"1", "8">>, <<"9">>}

NoLinks == <<>>

Response(remaining, reset, links, body) ==
  [remaining |-> Str(remaining), reset |-> Str(reset), links |-> links, body |-> body]

\* int(request.headers["X-RateLimit-Remaining"]) < 1
RateLimitUsedUp(response) == pyIntValue(response.remaining.text) < 1

\* Lines 18-23: log an error payload, return the json or the response.
AfterRateCheck(response, jsonOnly, log) ==
  [outcome |-> "returned",
   value |-> IF jsonOnly THEN [what |-> "json", body |-> response.body,
                               links |-> NoLinks]
                         ELSE [what |-> "response", body |-> response.body,
                               links |-> response.links],
   log |-> IF HasMessage(response.body)
             THEN log \o <<[level |-> "error", about |-> "message", text |-> <<>>],
                           [level |-> "plain", about |-> "message", text |-> <<>>]>>
             ELSE log]

\* getGithubApiRequest(urlExcBase, jsonOnly) on the response requests.get gave.
\* Lines 14-16 format the message with time.ctime of the reset header before
\* logPrint is called.
ApiRequest(response, jsonOnly) ==
  IF RateLimitUsedUp(response)
    THEN LET when == ctime(response.reset)
         IN  IF when.raised
               THEN [outcome |-> "TypeError",
                     value |-> [what |-> "", body |-> ListBody(<<>>), links |-> NoLinks],
                     log |-> <<>>]
               ELSE AfterRateCheck(response, jsonOnly,
                      <<[level |-> "error", about |-> "rate", text |-> when.text]>>)
    ELSE AfterRateCheck(response, jsonOnly, <<>>)

getGithubApiRequest(response, jsonOnly) ==
  /\ api.pc = "start"
  /\ LET r == ApiRequest(response, jsonOnly)
     IN  api' = [pc |-> "done", jsonOnly |-> jsonOnly,
                 remaining |-> response.remaining.text,
                 reset |-> response.reset.text,
                 body |-> response.body,
                 outcome |-> r.outcome, value |-> r.value, log |-> r.log]
  /\ UNCHANGED <<file, ledgerVars, concVars, forks, pages, rank, repl>>

InitApi == file = NoFile /\ LedgerIdle /\ ConcIdle /\ RestIdle

NextApi ==
  \E remaining \in RemainingTexts, reset \in ResetTexts, body \in Bodies,
     jsonOnly \in BOOLEAN :
    getGithubApiRequest(Response(remaining, reset, NoLinks, body), jsonOnly)

SpecApi == InitApi /\ [][NextApi]_vars

(***************************************************************************)
(* lib/githubREST.py: getPaginatedGithubApiRequest.  A url is a sequence   *)
(* of pieces of text, "&page=" being one piece and each digit one piece.   *)
(***************************************************************************)
MaxLast == 12
pageLimit == 10

\* url.split(sep): the runs of pieces between the occurrences of sep.
RECURSIVE pySplit(_, _)
pySplit(url, sep) ==
  IF \A i \in 1..Len(url) : url[i] # sep
    THEN <<url>>
    ELSE LET at == CHOOSE i \in 1..Len(url) :
                     url[i] = sep /\ \A j \in 1..(i - 1) : url[j] # sep
         IN  <<SubSeq(url, 1, at - 1)>> \o pySplit(SubSeq(url, at + 1, Len(url)), sep)

LastUrl(n) == <<"?per_page=100", "&page=">> \o DecimalText(n)

\* The links of a first page: none, no "last" among them, a "last" url
\* without "&page=", one whose page is no number, or one naming page n.
LinkChoices ==
  { NoLinks,
    [next |-> [url |-> LastUrl(2)]],
    [last |-> [url |-> <<"?page=", "3", "&per_page=100">>]],
    [last |-> [url |-> <<"?per_page=100", "&page=", "1", "5", "&q=x">>]] }
  \cup { [last |-> [url |-> LastUrl(n)]] : n \in 1..MaxLast }

\* Lines 69-72: int(firstPage.links['last']['url'].split("&page=")[1]), and 1
\* when that raises.
ParseLastPage(links) ==
  IF "last" \notin DOMAIN links
    THEN 1
    ELSE LET parts == pySplit(links.last.url, "&page=")
         IN  IF Len(parts) < 2 THEN 1
             ELSE IF ~IsDecimal(parts[2]) THEN 1
             ELSE pyIntValue(parts[2])

\* if lastPage > pageLimit
OverLimit(lastPage) == lastPage > pageLimit

\* The body of page p: a full page of items, or an error.
PageBodies(p) ==
  { ListBody(<<[page |-> p, item |-> 1], [page |-> p, item |-> 2]>>), ErrorBody }

\* The first page and what the server says of the others: an error carries
\* no links.
FirstResponses ==
  { Response(remaining, <<"1", "7">>, links, body) :
      remaining \in {<<"0">>, <<"5">>}, links \in LinkChoices,
      body \in {ListBody(<<[page |-> 1, item |-> 1], [page |-> 1, item |-> 2]>>)} }
  \cup { Response(remaining, <<"1", "7">>, NoLinks, ErrorBody) :
           remaining \in {<<"0">>, <<"5">>} }

NextResponses(p) ==
  { Response(remaining, <<"1", "7">>, NoLinks, body) :
      remaining \in {<<"0">>, <<"5">>}, body \in PageBodies(p) }

\* Lines 67-77: the first request, the last page, the cap and its warning.
PagesFirst(response) ==
  /\ pages.pc = "start"
  /\ LET r == ApiRequest(response, FALSE)
         parsed == ParseLastPage(r.value.links)
     IN  IF r.outcome # "returned"
           THEN pages' = [pc |-> "raised", links |-> response.links,
                          lastPage |-> 1, page |-> 1, requests |-> <<1>>,
                          served |-> <<>>, iterable |-> ListBody(<<>>), log |-> <<>>]
           ELSE pages' = [pc |-> "loop",
                          links |-> response.links,
                          lastPage |-> IF OverLimit(parsed) THEN pageLimit ELSE parsed,
                          page |-> 2,
                          requests |-> <<1>>,
                          served |-> <<r.value.body>>,
                          iterable |-> r.value.body,
                          log |-> IF OverLimit(parsed)
                                    THEN <<[level |-> "warning", about |-> "pages"]>>
                                    ELSE <<>>]
  /\ UNCHANGED <<file, ledgerVars, concVars, forks, api, rank, repl>>

\* Lines 78-80: the request of the next page and iterable.extend, which a
\* dict does not have.
PagesNext(response) ==
  /\ pages.pc = "loop"
  /\ pages.page <= pages.lastPage
  /\ LET r == ApiRequest(response, TRUE)
     IN  IF r.outcome # "returned" \/ pages.iterable.type # "list"
           THEN pages' = [pages EXCEPT !.pc = "raised",
                                       !.requests = Append(@, pages.page)]
           ELSE pages' = [pages EXCEPT
                            !.requests = Append(@, pages.page),
                            !.served = Append(@, r.value.body),
                            !.iterable = ListBody(@.items \o r.value.body.items),
                            !.page = @ + 1]
  /\ UNCHANGED <<file, ledgerVars, concVars, forks, api, rank, repl>>

\* Line 81: return iterable.
PagesReturn ==
  /\ pages.pc = "loop"
  /\ pages.page > pages.lastPage
  /\ pages' = [pages EXCEPT !.pc = "returned"]
  /\ UNCHANGED <<file, ledgerVars, concVars, forks, api, rank, repl>>

InitPages == file = NoFile /\ LedgerIdle /\ ConcIdle /\ RestIdle

NextPages ==
  \/ \E response \in FirstResponses : PagesFirst(response)
  \/ \E response \in NextResponses(pages.page) : PagesNext(response)
  \/ PagesReturn

SpecPages == InitPages /\ [][NextPages]_vars

(***************************************************************************)
(* main/UserReposTraffic.py: the script.  For every repository of the      *)
(* user it counts the alive forks and the stars, merges and totals the     *)
(* clones and the views, and scores; then it sorts and prints.             *)
(***************************************************************************)
username == "u"

\* githubGraph.getListOfUserRepos(username, "repositories")
sourceRepos ==
  << [name |-> "a", isArchived |-> FALSE],
     [name |-> "b", isArchived |-> TRUE],
     [name |-> "c", isArchived |-> FALSE] >>

\* repositoryName = username + "/" + repositoryShortName
RepositoryName(repoData) == <<username, "/", repoData.name>>

\* What the script's queries may answer for one repository.
ForkCounts == {0, 1}
StarCounts == {0, 2}
RankFetches == {<<>>, <<Day1>>, <<Day1, Day2>>}

\* getJsonData: the sum of the uniques stored for (repoName, trafficType).
RECURSIVE SumUniques(_)
SumUniques(userRepoTraffic) ==
  IF userRepoTraffic = <<>>
    THEN 0
    ELSE Head(userRepoTraffic).uniques + SumUniques(Tail(userRepoTraffic))

getJsonData(f, repoName, trafficType) ==
  SumUniques(jsonLoads(f.text)[repoName][trafficType])

\* score = len(aliveForks) * 8 + stars * 4 + clones * 2 + views
Score(aliveForks, stars, clones, views) ==
  aliveForks * 8 + stars * 4 + clones * 2 + views

getKey(item) == item[1]

\* An item goes ahead of the items already placed whose key is equal, as an
\* ascending sort read backwards leaves them.
InsertDescendingAhead(placed, item) ==
  LET ahead == Cardinality({j \in 1..Len(placed) : getKey(placed[j]) > getKey(item)})
  IN  SubSeq(placed, 1, ahead) \o <<item>> \o SubSeq(placed, ahead + 1, Len(placed))

\* sorted(..., key=getKey, reverse=True): descending, and stable: an item goes
\* behind the items already placed whose key is not smaller.
InsertDescending(placed, item) ==
  LET ahead == Cardinality({j \in 1..Len(placed) : getKey(placed[j]) >= getKey(item)})
  IN  SubSeq(placed, 1, ahead) \o <<item>> \o SubSeq(placed, ahead + 1, Len(placed))

RECURSIVE RunInsertion(_, _)
RunInsertion(placed, items) ==
  IF items = <<>> THEN placed
                  ELSE RunInsertion(InsertDescending(placed, Head(items)), Tail(items))

pySortedReverse(items) == RunInsertion(<<>>, items)

\* Lines 53-73: one turn of the loop.
RankIteration(aliveForks, stars, clonesDays, viewsDays) ==
  /\ rank.pc = "loop"
  /\ Len(rank.sortRepos) < Len(sourceRepos)
  /\ LET repoData == sourceRepos[Len(rank.sortRepos) + 1]
         repositoryName == RepositoryName(repoData)
         afterClones == [exists |-> TRUE, text |->
                           jsonDump(MergedLedger(file, repositoryName, "clones", clonesDays))]
         clones == getJsonData(afterClones, repositoryName, "clones")
         afterViews == [exists |-> TRUE, text |->
                          jsonDump(MergedLedger(afterClones, repositoryName, "views", viewsDays))]
         views == getJsonData(afterViews, repositoryName, "views")
         score == Score(aliveForks, stars, clones, views)
     IN  /\ file' = afterViews
         /\ rank' = [rank EXCEPT !.sortRepos =
                       Append(@, <<score, <<repoData.isArchived, repositoryName>>,
                                   aliveForks, stars, clones, views>>)]
  /\ UNCHANGED <<ledgerVars, concVars, forks, api, pages, repl>>

\* A query of the turn raising: the script ends there, nothing is printed.
RankRaises ==
  /\ rank.pc = "loop"
  /\ Len(rank.sortRepos) < Len(sourceRepos)
  /\ rank' = [rank EXCEPT !.pc = "raised"]
  /\ UNCHANGED <<file, ledgerVars, concVars, forks, api, pages, repl>>

\* Lines 79-84: sort and print.
RankReport ==
  /\ rank.pc = "loop"
  /\ Len(rank.sortRepos) = Len(sourceRepos)
  /\ rank' = [rank EXCEPT !.pc = "reported",
                          !.sortedRepos = pySortedReverse(rank.sortRepos)]
  /\ UNCHANGED <<file, ledgerVars, concVars, forks, api, pages, repl>>

InitRank == file = NoFile /\ LedgerIdle /\ ConcIdle /\ RestIdle

NextRank ==
  \/ \E aliveForks \in ForkCounts, stars \in StarCounts,
        clonesDays \in RankFetches, viewsDays \in RankFetches :
       RankIteration(aliveForks, stars, clonesDays, viewsDays)
  \/ RankRaises
  \/ RankReport

SpecRank == InitRank /\ [][NextRank]_vars

(***************************************************************************)
(* main/GitHubRepl.py: the command loop.  A line is the sequence of words  *)
(* command.split() gives.                                                  *)
(***************************************************************************)
MaxParams == 3

\* functions, each with the fewest and the most arguments its def accepts.
functions ==
  [exit |-> <<0, 0>>, help |-> <<0, 0>>, repos |-> <<0, 1>>, stars |-> <<0, 1>>,
   watching |-> <<0, 1>>, profile |-> <<0, 1>>, showrepo |-> <<1, 2>>,
   showreadme |-> <<1, 2>>, searchissues |-> <<1, 1>>, searchrepos |-> <<1, 1>>,
   searchusers |-> <<1, 1>>, gists |-> <<0, 1>>]

\* The first words tried: the names, two in other case, and two unknown ones.
FirstWords == (DOMAIN functions) \cup {"EXIT", "Repos", "quit", "Bogus"}

\* func.lower()
Lower(word) ==
  CASE word = "EXIT" -> "exit"
    [] word = "Repos" -> "repos"
    [] word = "Bogus" -> "bogus"
    [] OTHER -> word

Lines ==
  {<<>>} \cup
  { <<word>> \o params : word \in FirstWords,
                         params \in UNION {[1..n -> {"x"}] : n \in 0..MaxParams} }

\* Binding the arguments checks only that there are not too many.
ArityOkNotTooMany(func, n) == n <= functions[func][2]

\* functions[func](*params) binds n arguments to the parameters of the def.
ArityOk(func, n) == functions[func][1] <= n /\ n <= functions[func][2]

\* How the body of a handler may end: replexit by sys.exit(0), replhelp by
\* returning, and one that asks the network by returning or by an exception
\* of the requests, the json or the keys of the answer.
HandlerEnds(func) ==
  IF func = "exit" THEN {"SystemExit"}
  ELSE IF func = "help" THEN {"returns"}
  ELSE {"returns", "TypeError", "KeyError", "ValueError", "OtherError"}

\* Lines 141-142: what the try block ends with.
TryEnds(line, handlerEnd) ==
  IF line = <<>> THEN "ValueError"
  ELSE IF Lower(line[1]) \notin DOMAIN functions THEN "KeyError"
  ELSE IF ~ArityOk(Lower(line[1]), Len(line) - 1) THEN "TypeError"
  ELSE handlerEnd

\* Lines 143-148: what the except clauses log.
LoopLog(end) ==
  IF end \in {"TypeError", "KeyError"}
    THEN <<[level |-> "error", about |-> end]>>
    ELSE <<>>

\* One turn of the loop on an input line.
ReplCommand(line, handlerEnd) ==
  /\ repl.pc = "prompt"
  /\ LET end == TryEnds(line, handlerEnd)
     IN  repl' = [pc |-> IF end \in {"SystemExit", "OtherError"} THEN "exited"
                                                                ELSE "prompt",
                  status |-> IF end = "OtherError" THEN 1 ELSE 0,
                  line |-> line,
                  outcome |-> end,
                  log |-> LoopLog(end)]
  /\ UNCHANGED <<file, ledgerVars, concVars, forks, api, pages, rank>>

\* Line 139: input() at the end of the input raises EOFError outside the try.
ReplEndOfInput ==
  /\ repl.pc = "prompt"
  /\ repl' = [pc |-> "exited", status |-> 1, line |-> <<>>,
              outcome |-> "EOFError", log |-> <<>>]
  /\ UNCHANGED <<file, ledgerVars, concVars, forks, api, pages, rank>>

InitRepl == file = NoFile /\ LedgerIdle /\ ConcIdle /\ RestIdle

NextRepl ==
  \/ \E line \in Lines :
       \E handlerEnd \in (IF line # <<>> /\ Lower(line[1]) \in DOMAIN functions
                            THEN HandlerEnds(Lower(line[1])) ELSE {"returns"}) :
         ReplCommand(line, handlerEnd)
  \/ ReplEndOfInput

SpecRepl == InitRepl /\ [][NextRepl]_vars

(***************************************************************************)
(* Reading the persisted ledger.                                           *)
(***************************************************************************)
Entry(f, r, k) ==
  LET d == ReadLedger(f)
  IN  IF r \in DOMAIN d /\ k \in DOMAIN d[r] THEN d[r][k] ELSE <<>>

StrictlyAscending(seq) ==
  \A i \in 1..(Len(seq) - 1) :
    getDatetime(seq[i].timestamp) < getDatetime(seq[i + 1].timestamp)

IsPrefix(s, t) == Len(s) <= Len(t) /\ \A i \in 1..Len(s) : s[i] = t[i]

\* C1: every stored (repository, kind) sequence has strictly ascending
\* timestamps, so no two of its samples share a timestamp.
C1_StrictlyAscending ==
  \A r \in Repos, k \in Kinds :
    LET seq == Entry(file, r, k)
    IN  /\ StrictlyAscending(seq)
        /\ \A i, j \in 1..Len(seq) : seq[i].timestamp = seq[j].timestamp => i = j

C1_Witness ==
  /\ call.ok /\ Len(call.days) = 2
  /\ call.days[1].timestamp = call.days[2].timestamp
  /\ Len(Entry(file, call.repo, call.kind)) = 3

\* The samples a call appends to a sequence ending in `base`: day i is kept
\* iff it is strictly newer than the last sample stored when it is looked at,
\* which is the newest of the last sample of `base` and the days before i.
IsKept(base, days, i) ==
  LET stamp == getDatetime(days[i].timestamp)
  IN  /\ getDatetime(Last(base).timestamp) < stamp
      /\ \A j \in 1..(i - 1) : getDatetime(days[j].timestamp) < stamp

KeptDays(base, days) ==
  LET idx == SelectSeq([i \in 1..Len(days) |-> i], LAMBDA i : IsKept(base, days, i))
  IN  [j \in 1..Len(idx) |->
         [timestamp |-> days[idx[j]].timestamp, uniques |-> days[idx[j]].uniques]]

\* C2: a call never removes or alters a stored sample (the sequence before is
\* a prefix of the sequence after), and it appends exactly the fetched days
\* that are strictly newer than the last sample stored at that moment, the
\* sentinel standing for a missing entry.
C2_AppendOnly ==
  LET was == Entry(before, call.repo, call.kind)
      now == Entry(file, call.repo, call.kind)
      base == IF was = <<>> THEN <<Sentinel>> ELSE was
  IN  /\ IsPrefix(was, now)
      /\ call.ok => now = base \o KeptDays(base, call.days)
      /\ ~call.ok => now = was

\* An existing entry <<Sentinel, first day>> met the days <<second, first>>:
\* the second was appended, the first rejected.
C2_Witness ==
  /\ call.ok /\ Len(call.days) = 2
  /\ getDatetime(call.days[2].timestamp) < getDatetime(call.days[1].timestamp)
  /\ Len(Entry(before, call.repo, call.kind)) = 2
  /\ LET seq == Entry(file, call.repo, call.kind)
     IN  /\ Len(seq) = 3
         /\ seq[1] = Sentinel
         /\ seq[2].timestamp = call.days[2].timestamp
         /\ seq[3].timestamp = call.days[1].timestamp

\* C3: a second call with the same repository, kind and fetched days as the
\* call before it leaves the persisted ledger as the first call left it.
C3_Idempotent ==
  (repeated /\ call.ok) => file = before

C3_Witness ==
  /\ repeated /\ call.ok /\ Len(call.days) = 2
  /\ Len(Entry(file, call.repo, call.kind)) >= 2

\* C10: a call changes only the (repo, kind) entry: the other repositories
\* and the other traffic kind of the same repository are written back as read.
C10_Frame ==
  LET d == ReadLedger(before)
      e == ReadLedger(file)
  IN  /\ \A r \in Repos \ {call.repo} :
            /\ (r \in DOMAIN e) <=> (r \in DOMAIN d)
            /\ r \in DOMAIN d => e[r] = d[r]
      /\ \A k \in Kinds \ {call.kind} :
            /\ (call.repo \in DOMAIN e /\ k \in DOMAIN e[call.repo])
                 <=> (call.repo \in DOMAIN d /\ k \in DOMAIN d[call.repo])
            /\ (call.repo \in DOMAIN d /\ k \in DOMAIN d[call.repo])
                 => e[call.repo][k] = d[call.repo][k]

\* A call that appended to one entry while the other kind of its repository
\* and the other repository held samples.
C10_Witness ==
  /\ call.ok
  /\ Len(Entry(file, call.repo, call.kind)) > Len(Entry(before, call.repo, call.kind))
  /\ \A a \in CallArgs : Len(Entry(before, a[1], a[2])) >= 2

(***************************************************************************)
(* The two invocations.                                                    *)
(***************************************************************************)
Range(seq) == {seq[i] : i \in DOMAIN seq}

\* Both invocations read the file before either wrote it, and both wrote.
Overlapped ==
  /\ Len(order) = 4
  /\ order[1][2] = "read" /\ order[2][2] = "read"

LastWriter == order[4][1]
FirstWriter == order[3][1]

\* The samples invocation p put into its (repo, kind) entry.
AppendedBy(p) ==
  { <<inv[p].repo, inv[p].kind, x>> :
      x \in Range(inv[p].userRepoTrafficType)
             \ Range(Entry(start, inv[p].repo, inv[p].kind)) }

\* C9: when two invocations both read before either writes, the file left is
\* the ledger the last writer computed from its own read, and the samples
\* only the other invocation appended are not in it.
C9_LastWriteWins ==
  Overlapped =>
    /\ file = [exists |-> TRUE, text |->
                 jsonDump(MergedLedger(start, inv[LastWriter].repo,
                                       inv[LastWriter].kind, inv[LastWriter].days))]
    /\ \A a \in AppendedBy(FirstWriter) \ AppendedBy(LastWriter) :
         a[3] \notin Range(Entry(file, a[1], a[2]))

\* The first writer appended a fetched day that the file, after both wrote,
\* does not hold.
C9_Witness ==
  /\ Overlapped
  /\ \E a \in AppendedBy(FirstWriter) \ AppendedBy(LastWriter) : a[3] # Sentinel
  /\ \E a \in AppendedBy(LastWriter) : a[3] # Sentinel
  /\ start.exists

(***************************************************************************)
(* The alive forks.                                                        *)
(***************************************************************************)
ForkAlive(i) ==
  getDatetime(forks.forkedRepos[i].pushed_at) + 7 * forks.lifespan > forks.clock[i]

ForkNewer(i) ==
  getDatetime(forks.forkedRepos[i].pushed_at) > getDatetime(forks.pushed_at)

\* C4: the first result of getListOfAliveForks is the fetched forks, in the
\* order fetched, that are alive and, when enableNewer is set, newer than the
\* source: an alive fork that is not newer is left out exactly when
\* enableNewer is set.
C4_AliveForks ==
  forks.pc = "returned" =>
    LET n == Len(forks.forkedRepos)
        idx == SelectSeq([i \in 1..n |-> i],
                 LAMBDA i : ForkAlive(i) /\ (forks.enableNewer => ForkNewer(i)))
    IN  /\ forks.aliveRepos = [j \in 1..Len(idx) |-> forks.forkedRepos[idx[j]]]
        /\ \A i \in 1..n :
             (ForkAlive(i) /\ ~ForkNewer(i)) =>
               ((forks.forkedRepos[i] \in Range(forks.aliveRepos)) <=> ~forks.enableNewer)

\* enableNewer set: of three forks the alive one not newer than the source and
\* the stale one were left out, and the alive newer one was kept.
C4_Witness ==
  /\ forks.pc = "returned" /\ forks.enableNewer
  /\ Len(forks.forkedRepos) = 3 /\ Len(forks.aliveRepos) = 1
  /\ \E i \in 1..3 : ForkAlive(i) /\ ~ForkNewer(i)
  /\ \E i \in 1..3 : ~ForkAlive(i)

(***************************************************************************)
(* The rate limit.                                                         *)
(***************************************************************************)
\* C6: when the response's remaining-rate-limit counter is below 1,
\* getGithubApiRequest logs an error naming the reset time and still returns
\* the response's data.
C6_RateLimitNonFatal ==
  (api.pc = "done" /\ pyIntValue(api.remaining) < 1) =>
    /\ api.outcome = "returned"
    /\ api.value.body = api.body
    /\ \E i \in 1..Len(api.log) :
         api.log[i].level = "error" /\ api.log[i].about = "rate"

(***************************************************************************)
(* The pages.                                                              *)
(***************************************************************************)
Min(a, b) == IF a < b THEN a ELSE b

RECURSIVE Concat(_)
Concat(bodies) ==
  IF bodies = <<>> THEN <<>> ELSE Head(bodies).items \o Concat(Tail(bodies))

\* C5: with L the last page reported with the first page (1 when absent or
\* unparseable), the call makes exactly min(L, 10) requests, for the pages
\* 1..min(L, 10) in that order, returns their items in that order, and warns
\* once iff L > 10.
C5_Pages ==
  pages.pc \in {"returned", "raised"} =>
    LET L == ParseLastPage(pages.links)
        n == Min(L, pageLimit)
    IN  /\ pages.pc = "returned"
        /\ pages.requests = [i \in 1..n |-> i]
        /\ pages.iterable.items = Concat(pages.served)
        /\ Len(pages.log) = (IF L > pageLimit THEN 1 ELSE 0)

\* The same of the calls in which no request found the rate limit used up
\* and no page was an error: the arithmetic of the pages is as C5 says.
C5_PagesUnlessRaised ==
  pages.pc = "returned" =>
    LET L == ParseLastPage(pages.links)
        n == Min(L, pageLimit)
    IN  /\ pages.requests = [i \in 1..n |-> i]
        /\ pages.iterable.items = Concat(pages.served)
        /\ Len(pages.log) = (IF L > pageLimit THEN 1 ELSE 0)

(***************************************************************************)
(* The ranking.                                                            *)
(***************************************************************************)
\* Where the entry of the i-th repository encountered stands in the report.
Place(i) == CHOOSE j \in 1..Len(rank.sortedRepos) : rank.sortedRepos[j] = rank.sortRepos[i]

\* C7: the report lists every repository once, by descending score
\* forks*8 + stars*4 + clones*2 + views, repositories of equal score in the
\* order they were encountered, each entry with its four counts.
C7_Ranking ==
  rank.pc = "reported" =>
    LET n == Len(sourceRepos)
        out == rank.sortedRepos
    IN  /\ Len(out) = n
        /\ \A i \in 1..n :
             Cardinality({j \in 1..n : out[j][2][2] = RepositoryName(sourceRepos[i])}) = 1
        /\ \A j \in 1..n :
             /\ out[j][1] = out[j][3] * 8 + out[j][4] * 4 + out[j][5] * 2 + out[j][6]
             /\ out[j][5] = SumUniques(Entry(file, out[j][2][2], "clones"))
             /\ out[j][6] = SumUniques(Entry(file, out[j][2][2], "views"))
             /\ \E i \in 1..n : out[j] = rank.sortRepos[i]
        /\ \A j, k \in 1..n : j < k => out[j][1] >= out[k][1]
        /\ \A i, k \in 1..n :
             (i < k /\ rank.sortRepos[i][1] = rank.sortRepos[k][1]) => Place(i) < Place(k)

\* Three repositories, the first and the third of one score reached with
\* different counts, the second of a higher score.
C7_Witness ==
  /\ rank.pc = "reported"
  /\ rank.sortRepos[1][1] = rank.sortRepos[3][1]
  /\ rank.sortRepos[1] # <<rank.sortRepos[3][1], rank.sortRepos[1][2],
                           rank.sortRepos[3][3], rank.sortRepos[3][4],
                           rank.sortRepos[3][5], rank.sortRepos[3][6]>>
  /\ rank.sortRepos[2][1] > rank.sortRepos[1][1]
  /\ rank.sortRepos[1][1] > 0
  /\ rank.sortRepos[2][5] > 0
  /\ rank.sortedRepos = <<rank.sortRepos[2], rank.sortRepos[1], rank.sortRepos[3]>>

(***************************************************************************)
(* The command loop.                                                       *)
(***************************************************************************)
Names ==
  {"exit", "help", "repos", "stars", "watching", "profile", "showrepo",
   "showreadme", "searchissues", "searchrepos", "searchusers", "gists"}

ExitWords == {"exit", "EXIT"}

\* The line names no command: its first word is none of the names in any case.
UnknownCommand(line) ==
  line # <<>> /\ line[1] \notin Names \cup {"EXIT", "Repos"}

\* The line names a command and gives it a wrong number of arguments.
WrongArgumentCount(line) ==
  /\ line # <<>>
  /\ LET n == Len(line) - 1
     IN  \/ line[1] \in ExitWords \cup {"help"} /\ n # 0
         \/ line[1] \in {"repos", "Repos", "stars", "watching", "profile", "gists"} /\ n > 1
         \/ line[1] \in {"showrepo", "showreadme"} /\ (n < 1 \/ n > 2)
         \/ line[1] \in {"searchissues", "searchrepos", "searchusers"} /\ n # 1

\* The loop took a line (the end of the input is no line).
TookLine == repl.outcome \notin {"", "EOFError"}

LoggedError ==
  Len(repl.log) = 1 /\ repl.log[1].level = "error"

MalformedHandled ==
  /\ (TookLine /\ (WrongArgumentCount(repl.line) \/ UnknownCommand(repl.line)))
       => (LoggedError /\ repl.pc = "prompt")
  /\ (TookLine /\ repl.line = <<>>) => (repl.log = <<>> /\ repl.pc = "prompt")

\* C8 as claimed: a wrong number of arguments or an unknown name is logged as
\* an error and the loop goes on; an empty line is ignored silently; only the
\* exit command ends the process, with status 0.
C8_OnlyExitEnds ==
  /\ MalformedHandled
  /\ repl.pc = "exited" =>
       (repl.line # <<>> /\ repl.line[1] \in ExitWords /\ repl.status = 0)

\* C8 as amended: the same of the malformed lines; the exit command without
\* arguments ends the process with status 0; the process ends otherwise only
\* with a failure status, at the end of the input or when a handler raises
\* something other than TypeError, KeyError and ValueError.
C8_ExitOrFailure ==
  /\ MalformedHandled
  /\ (TookLine /\ Len(repl.line) = 1 /\ repl.line[1] \in ExitWords)
       => (repl.pc = "exited" /\ repl.status = 0)
  /\ repl.pc = "exited" =>
       \/ repl.line # <<>> /\ repl.line[1] \in ExitWords /\ repl.status = 0
       \/ repl.status = 1 /\ repl.outcome \in {"EOFError", "OtherError"}

\* A command given too few arguments was logged as an error and the prompt
\* came back.
C8_Witness ==
  /\ repl.pc = "prompt" /\ repl.outcome = "TypeError"
  /\ repl.line = <<"showrepo">>
  /\ LoggedError
====
